---- MODULE Spec2Model ----
(***************************************************************************)
(* WHO health ETL pipeline: run_pipeline (main.py) driving extract_data    *)
(* (extract.py), transform_data (transform.py), load_data and the          *)
(* checkpoint functions (load.py) against the PostgreSQL store.            *)
(*                                                                         *)
(* Encodings                                                               *)
(*   checkpoint   None is -1, the dict {"page": n} is the integer n >= 0   *)
(*   raw field    [k |-> kind, n |-> payload]: kind "int" (number n),      *)
(*                "numstr" (the string holding the decimal n), "text" (a   *)
(*                non-numeric string: n indexes Countries, 0 is the empty  *)
(*                string), "frac" (the                                     *)
(*                float n + 0.5), "null" (None), "absent" (key missing)    *)
(*   value        NumericValue is modelled on the integers                 *)
(***************************************************************************)
EXTENDS Integers, Sequences, FiniteSets, TLC

VARIABLES
    source,             \* the API: page index -> number of records it returns
    variant,            \* which record pool the API serves
    pipeline_metadata,  \* the row of PIPELINE_NAME in pipeline_metadata
    health_indicators,  \* the rows of the table health_indicators
    loaded,             \* history: the records of the committed loads, in order
    clock,              \* NOW() of the store, one tick per load transaction
    runs,               \* invocations of run_pipeline started so far
    pc,                 \* per process: position in run_pipeline
    checkpoint,         \* per process: run_pipeline's local `checkpoint`
    page,               \* per process: extract_data's local `page`
    record_count,       \* per process: extract_data's local `record_count`
    all_records,        \* per process: extract_data's local `all_records`
    raw_data,           \* per process: run_pipeline's local `raw_data`
    clean_data,         \* per process: run_pipeline's local `clean_data`
    raised,             \* per process: the exception in flight, "" if none
    save_landed,        \* per process: did the last save_checkpoint commit
    log,                \* per process: the calls of the current run, in order
    fetch_call          \* a call of fetch_with_retry on its own: arguments and outcome

vars == <<fetch_call, source, variant, pipeline_metadata, health_indicators, loaded, clock, runs,
          pc, checkpoint, page, record_count, all_records, raw_data,
          clean_data, raised, save_landed, log>>

----------------------------------------------------------------------------
(* Bounds of the model *)

\* config.PAGE_SIZE is 100; the model pages by a small size
PAGE_SIZE == 2
\* pages 0..MaxPage can be requested; a request beyond them is not explored
MaxPage == 2
\* fetch_with_retry is called with max_retries from 1 to MaxAttempts
MaxAttempts == 5
\* transform_data is called with batches of 0 to MaxBatch records
MaxBatch == 3
\* invocations of run_pipeline, one after the other
MaxRuns == 2

(* Program constants *)
MAX_RETRIES == 3
MIN_YEAR == 1900
MAX_YEAR == 2030
MIN_VALUE == 0

INDICATOR_CODE == "WHOSIS_000001"
INDICATOR_NAME == "Life expectancy at birth (years)"
SOURCE_URL == "https://ghoapi.azureedge.net/api"

None == -1
Procs == {1, 2}
Main == 1

----------------------------------------------------------------------------
(* Raw records served by the API *)

Val(k, n) == [k |-> k, n |-> n]
Countries == <<"USA", "CAN">>

Raw(c, y, v, d) == [SpatialDim |-> c, TimeDim |-> y, NumericValue |-> v, Dim1 |-> d]

Pools ==
    << \* well-formed records, the third repeats the key of the first
       << Raw(Val("text", 1), Val("int", 2020), Val("int", 70), Val("text", 1)),
          Raw(Val("text", 2), Val("int", 2020), Val("int", 80), Val("text", 1)),
          Raw(Val("text", 1), Val("int", 2020), Val("int", 75), Val("text", 1)) >>,
       \* a null value, an out-of-range year, a negative value among good records
       << Raw(Val("text", 1), Val("int", 2021), Val("null", 0), Val("absent", 0)),
          Raw(Val("text", 2), Val("numstr", 2021), Val("int", 81), Val("absent", 0)),
          Raw(Val("text", 1), Val("int", 1899), Val("int", 60), Val("absent", 0)),
          Raw(Val("text", 1), Val("int", 2021), Val("int", 71), Val("absent", 0)),
          Raw(Val("text", 2), Val("int", 2020), Val("int", 0 - 1), Val("absent", 0)) >>,
       \* a fractional year
       << Raw(Val("text", 1), Val("int", 2020), Val("int", 70), Val("absent", 0)),
          Raw(Val("text", 2), Val("frac", 2020), Val("int", 80), Val("absent", 0)) >>,
       \* records without the NumericValue key
       << Raw(Val("text", 1), Val("int", 2020), Val("absent", 0), Val("absent", 0)),
          Raw(Val("text", 2), Val("int", 2021), Val("absent", 0), Val("text", 1)) >> >>

\* a page is empty, short or full
PageSizes == {0, 1, PAGE_SIZE}

\* the i-th record (from 0) of page p
RawAt(v, p, i) == Pools[v][(((p * PAGE_SIZE) + i) % Len(Pools[v])) + 1]

\* the "value" array of the response to $skip = p * PAGE_SIZE, $top = PAGE_SIZE
PageRecords(p) == [i \in 1..source[p] |-> RawAt(variant, p, i - 1)]

----------------------------------------------------------------------------
(* transform_data (transform.py) *)

\* a DataFrame column exists when at least one record carries the key
HasColumn(raw, col) == \E i \in 1..Len(raw) : raw[i][col].k # "absent"

\* pandas isna: None, and the NaN that fills a key the record lacks
IsNull(x) == x.k \in {"null", "absent"}

\* pd.to_numeric(errors="coerce") of one cell
ToNumeric(x) ==
    CASE x.k = "int" -> Val("int", x.n)
      [] x.k = "numstr" -> Val("int", x.n)
      [] x.k = "frac" -> Val("frac", x.n)
      [] OTHER -> Val("nan", 0)

\* df[list(column_mapping.keys())].rename(columns=column_mapping)
RenameColumns(r, withDim) ==
    IF withDim
    THEN [country_code |-> r.SpatialDim, year |-> r.TimeDim,
          value |-> r.NumericValue, dimension |-> r.Dim1]
    ELSE [country_code |-> r.SpatialDim, year |-> r.TimeDim,
          value |-> r.NumericValue]

NotNullRow(r) == ~IsNull(r.country_code) /\ ~IsNull(r.year) /\ ~IsNull(r.value)
ConvertTypes(r) == [r EXCEPT !.year = ToNumeric(r.year), !.value = ToNumeric(r.value)]
ConvertedRow(r) == r.year.k # "nan" /\ r.value.k # "nan"
YearInRange(r) == r.year.n >= MIN_YEAR /\ r.year.n <= MAX_YEAR
ValueInRange(r) == r.value.n >= MIN_VALUE

\* a bug: keep="last"
RECURSIVE DropDuplicatesKeepLast(_, _)
DropDuplicatesKeepLast(s, seen) ==
    IF s = <<>> THEN <<>>
    ELSE LET n == Len(s)
             key == <<s[n].country_code, s[n].year.n>>
         IN IF key \in seen THEN DropDuplicatesKeepLast(SubSeq(s, 1, n - 1), seen)
            ELSE DropDuplicatesKeepLast(SubSeq(s, 1, n - 1), seen \cup {key}) \o <<s[n]>>

\* a bug: no deduplication
DropDuplicatesNone(s, seen) == s

\* a bug: the kept records come out newest first
RECURSIVE DropDuplicatesNewestFirst(_, _)
DropDuplicatesNewestFirst(s, seen) ==
    IF s = <<>> THEN <<>>
    ELSE LET key == <<Head(s).country_code, Head(s).year.n>>
         IN IF key \in seen THEN DropDuplicatesNewestFirst(Tail(s), seen)
            ELSE DropDuplicatesNewestFirst(Tail(s), seen \cup {key}) \o <<Head(s)>>

\* drop_duplicates(subset=["country_code", "year"], keep="first")
RECURSIVE DropDuplicates(_, _)
DropDuplicates(s, seen) ==
    IF s = <<>> THEN <<>>
    ELSE LET key == <<Head(s).country_code, Head(s).year.n>>
         IN IF key \in seen THEN DropDuplicates(Tail(s), seen)
            ELSE <<Head(s)>> \o DropDuplicates(Tail(s), seen \cup {key})

\* the metadata columns, and year and value as plain numbers
AddMetadata(r, withDim) ==
    LET base == [country_code |-> r.country_code, year |-> r.year.n,
                 value |-> r.value.n, indicator_code |-> INDICATOR_CODE,
                 indicator_name |-> INDICATOR_NAME, source_url |-> SOURCE_URL]
    IN IF withDim
       THEN [f \in (DOMAIN base) \cup {"dimension"} |->
                IF f = "dimension" THEN r.dimension ELSE base[f]]
       ELSE base

\* the required columns the DataFrame lacks
MissingColumns(raw) ==
    {col \in {"SpatialDim", "TimeDim", "NumericValue"} : ~HasColumn(raw, col)}

\* a bug: a batch that lacks a required column raises
RejectedBatchRaises(missing_columns) == [raised |-> "KeyError", out |-> <<>>]

\* if missing_columns: logger.error(...); return []
RejectedBatch(missing_columns) == [raised |-> "", out |-> <<>>]

\* [raised |-> the exception or "", out |-> the returned list]
transform_data(raw) ==
    IF raw = <<>> THEN [raised |-> "", out |-> <<>>]
    ELSE IF MissingColumns(raw) # {}
    THEN RejectedBatch(MissingColumns(raw))
    ELSE
      LET withDim == HasColumn(raw, "Dim1")
          df0 == [i \in 1..Len(raw) |-> RenameColumns(raw[i], withDim)]
          df1 == SelectSeq(df0, NotNullRow)
          df2 == [i \in 1..Len(df1) |-> ConvertTypes(df1[i])]
          \* astype("Int64") refuses a float column holding a non-integer
          unsafe == \E i \in 1..Len(df2) : df2[i].year.k = "frac"
          df3 == SelectSeq(df2, ConvertedRow)
          df4 == SelectSeq(df3, YearInRange)
          df5 == SelectSeq(df4, ValueInRange)
          df6 == DropDuplicates(df5, {})
      IN IF unsafe THEN [raised |-> "TypeError", out |-> <<>>]
         ELSE [raised |-> "",
               out |-> [i \in 1..Len(df6) |-> AddMetadata(df6[i], withDim)]]

----------------------------------------------------------------------------
(* fetch_with_retry (extract.py, utils/http.py) *)

\* the calls fetch_with_retry makes, in order
GetCall(attempt) == [op |-> "get", attempt |-> attempt]
SleepCall(seconds) == [op |-> "sleep", seconds |-> seconds]

\* a bug: the backoff starts at 2 seconds
WaitTimeFromTwo(attempt) == 2 ^ (attempt + 1)

\* wait_time = 2 ** attempt
WaitTime(attempt) == 2 ^ attempt

\* a bug: a backoff wait after the final attempt too
SleepsAlways(attempt, max_retries) == TRUE

\* if attempt < max_retries - 1: time.sleep(wait_time)
SleepsAfter(attempt, max_retries) == attempt < max_retries - 1

\* outcomes[i + 1] tells whether the GET of attempt i succeeds, if it is made;
\* the response and the exception of attempt i are identified by i.
\* [ok, calls, body |-> the response returned, raised |-> the exception raised]
RECURSIVE FetchAttempts(_, _, _, _, _)
FetchAttempts(outcomes, attempt, max_retries, calls, last_exception) ==
    IF attempt >= max_retries
    THEN [ok |-> FALSE, calls |-> calls, body |-> None, raised |-> last_exception]
    ELSE IF outcomes[attempt + 1]
    THEN [ok |-> TRUE, calls |-> Append(calls, GetCall(attempt)),
          body |-> attempt, raised |-> None]
    ELSE FetchAttempts(outcomes, attempt + 1, max_retries,
                       IF SleepsAfter(attempt, max_retries)
                       THEN Append(Append(calls, GetCall(attempt)),
                                   SleepCall(WaitTime(attempt)))
                       ELSE Append(calls, GetCall(attempt)),
                       attempt)

fetch_with_retry(outcomes, max_retries) ==
    FetchAttempts(outcomes, 0, max_retries, <<>>, None)

----------------------------------------------------------------------------
(* The store: pipeline_metadata and health_indicators (load.py) *)

\* where a database call fails, "none" if it does not
DbFaults == {"none", "connect", "execute", "commit"}

NoRow == [exists |-> FALSE, last_checkpoint |-> None, status |-> "", records_processed |-> 0]

\* Python truth value of an Optional[dict]: None is false, a dict with the
\* key "page" is true whatever the page, 0 included
Truthy(checkpoint_data) == checkpoint_data # None

\* a bug: only the checkpoint of a failed run is returned
GetLastCheckpointOfFailed(row, fault) ==
    IF fault # "none" THEN None
    ELSE IF row.exists /\ Truthy(row.last_checkpoint) /\ row.status = "failed"
    THEN row.last_checkpoint
    ELSE None

\* get_last_checkpoint: the stored checkpoint, None for no row, NULL or an error
get_last_checkpoint(row, fault) ==
    IF fault # "none" THEN None
    ELSE IF row.exists /\ Truthy(row.last_checkpoint) THEN row.last_checkpoint
    ELSE None

\* a bug: COALESCE(EXCLUDED.last_checkpoint, last_checkpoint) keeps the old
\* checkpoint when None is saved
UpsertMetadataCoalesce(row, checkpoint_data, status) ==
    [exists |-> TRUE,
     last_checkpoint |-> IF checkpoint_data = None /\ row.exists
                         THEN row.last_checkpoint ELSE checkpoint_data,
     status |-> status,
     records_processed |-> IF row.exists THEN row.records_processed ELSE 0]

\* a bug: a plain INSERT, which the primary key refuses for an existing row
UpsertMetadataInsertOnly(row, checkpoint_data, status) ==
    IF row.exists THEN row
    ELSE [exists |-> TRUE, last_checkpoint |-> checkpoint_data, status |-> status,
          records_processed |-> 0]

\* the row after the INSERT ... ON CONFLICT (pipeline_name) DO UPDATE; an
\* inserted row starts counting records_processed at 0
UpsertMetadata(row, checkpoint_data, status) ==
    [exists |-> TRUE, last_checkpoint |-> checkpoint_data, status |-> status,
     records_processed |-> IF row.exists THEN row.records_processed ELSE 0]

\* save_checkpoint: the row afterwards; an error is logged and swallowed
save_checkpoint(row, checkpoint_data, status, fault) ==
    LET checkpoint_json == IF Truthy(checkpoint_data) THEN checkpoint_data ELSE None
    IN IF fault # "none" THEN row ELSE UpsertMetadata(row, checkpoint_json, status)

\* the columns of the unique constraint of health_indicators
KeyOf(rec) == <<rec.country_code, rec.indicator_code, rec.year>>

\* the row a plain INSERT of the record adds; country_name is left NULL
InsertedRow(rec, now) ==
    [country_code |-> rec.country_code, indicator_code |-> rec.indicator_code,
     indicator_name |-> rec.indicator_name, year |-> rec.year,
     value |-> rec.value, source_url |-> rec.source_url,
     fetched_at |-> now, country_name |-> ""]

\* a bug: ON CONFLICT DO NOTHING keeps the stored value
ConflictDoNothing(row, rec, now) == row

\* a bug: the conflicting row is replaced by the row of the new record
ConflictReplace(row, rec, now) == InsertedRow(rec, now)

\* DO UPDATE SET value = EXCLUDED.value, fetched_at = NOW()
ConflictUpdate(row, rec, now) == [row EXCEPT !.value = rec.value, !.fetched_at = now]

\* one INSERT ... ON CONFLICT (country_code, indicator_code, year) DO UPDATE
UpsertRow(hi, rec, now) ==
    IF \E row \in hi : KeyOf(row) = KeyOf(rec)
    THEN {IF KeyOf(row) = KeyOf(rec) THEN ConflictUpdate(row, rec, now) ELSE row :
            row \in hi}
    ELSE hi \cup {InsertedRow(rec, now)}

\* extras.execute_batch: the first n statements of the batch, in order
RECURSIVE ExecuteBatch(_, _, _, _)
ExecuteBatch(hi, data, n, now) ==
    IF n = 0 \/ data = <<>> THEN hi
    ELSE ExecuteBatch(UpsertRow(hi, Head(data), now), Tail(data), n - 1, now)

\* UPDATE pipeline_metadata SET records_processed = records_processed + n
UpdateMetadata(row, n) ==
    IF row.exists THEN [row EXCEPT !.records_processed = @ + n] ELSE row

\* a bug: the statements executed before the error stay in the store
NoRollback(before, work) == work

\* conn.rollback(): the store as it was before the transaction
Rollback(before, work) == before

\* the ways a load of n records can fail: [at, stmt]
LoadFaults(n) ==
    {[at |-> a, stmt |-> 0] : a \in {"none", "connect", "metadata", "commit"}}
        \cup {[at |-> "upsert", stmt |-> i] : i \in 1..n}

\* a bug: an empty batch goes through the transaction like any other
NothingToLoadNever(data) == FALSE

\* if not data: return 0, before any connection is opened
NothingToLoad(data) == data = <<>>

\* load_data: [raised, returned, hi, meta]; the uncommitted work of a failed
\* transaction is rolled back
load_data(hi, meta, data, fault, now) ==
    LET before == [hi |-> hi, meta |-> meta]
        n == Len(data)
        done == CASE fault.at = "connect" -> 0
                  [] fault.at = "upsert" -> fault.stmt - 1
                  [] OTHER -> n
        work == [hi |-> ExecuteBatch(hi, data, done, now),
                 meta |-> IF fault.at \in {"none", "commit"}
                          THEN UpdateMetadata(meta, n) ELSE meta]
    IN IF NothingToLoad(data)
       THEN [raised |-> "", returned |-> 0, hi |-> hi, meta |-> meta]
       ELSE IF fault.at = "none"
       THEN [raised |-> "", returned |-> n, hi |-> work.hi, meta |-> work.meta]
       ELSE [raised |-> "psycopg2.Error", returned |-> 0,
             hi |-> Rollback(before, work).hi, meta |-> Rollback(before, work).meta]

----------------------------------------------------------------------------
(* run_pipeline (main.py) and the page loop of extract_data (extract.py) *)

\* one call of the run: what was called, its argument, and how it went
Ev(op, arg, status, ok) == [op |-> op, arg |-> arg, status |-> status, ok |-> ok]

\* the GET of extract_data: ...?$skip={skip}&$top={PAGE_SIZE}
FetchEv(skip, top, ok) == [op |-> "fetch", skip |-> skip, top |-> top, ok |-> ok]

Logged(r, e) == log' = [log EXCEPT ![r] = Append(@, e)]
Logged2(r, e1, e2) == log' = [log EXCEPT ![r] = Append(Append(@, e1), e2)]

\* the store after setup_db: no row yet, or the seed row of the schema
FreshMetadata ==
    {NoRow, [exists |-> TRUE, last_checkpoint |-> None, status |-> "idle",
             records_processed |-> 0]}

\* fetch_with_retry has not been called on its own
NoCall ==
    [max_retries |-> 0, outcomes |-> <<>>, returned |-> FALSE,
     res |-> [ok |-> FALSE, calls |-> <<>>, body |-> None, raised |-> None]]

Init ==
    /\ fetch_call = NoCall
    /\ source \in [0..MaxPage -> PageSizes]
    /\ variant \in 1..Len(Pools)
    /\ pipeline_metadata \in FreshMetadata
    /\ health_indicators = {}
    /\ loaded = <<>>
    /\ clock = 0
    /\ runs = 0
    /\ pc = [r \in Procs |-> "idle"]
    /\ checkpoint = [r \in Procs |-> None]
    /\ page = [r \in Procs |-> 0]
    /\ record_count = [r \in Procs |-> 0]
    /\ all_records = [r \in Procs |-> <<>>]
    /\ raw_data = [r \in Procs |-> <<>>]
    /\ clean_data = [r \in Procs |-> <<>>]
    /\ raised = [r \in Procs |-> ""]
    /\ save_landed = [r \in Procs |-> FALSE]
    /\ log = [r \in Procs |-> <<>>]

\* extract_data: page = start_from["page"] if a checkpoint is given, else 0
StartPageZero(start_from) == 0

StartPage(start_from) == IF start_from # None THEN start_from ELSE 0

\* extract_data: checkpoint = {"page": page + 1} after a fetched page
RunningCheckpointSamePage(p) == p

\* a bug: the checkpoint skips a page
RunningCheckpointSkipsPage(p) == p + 2

RunningCheckpoint(p) == p + 1

\* extract_data: checkpoint = {"page": page} after a failed fetch
FailedCheckpointNextPage(p) == p + 1

FailedCheckpoint(p) == p

\* extract_data: if record_count < PAGE_SIZE: break
EndOfDataInclusive(n) == n <= PAGE_SIZE

EndOfData(n) == n < PAGE_SIZE

\* run_pipeline: the checkpoint its except block saves is the one read at the start
HandlerCheckpointCurrentPage(r) == page[r]

HandlerCheckpoint(r) == checkpoint[r]

\* run_pipeline: a load that raised leaves the try block for the except block
AfterLoadSwallowed(exc) == "mark_completed"

AfterLoad(exc) == IF exc = "" THEN "mark_completed" ELSE "handle"

\* a bug: the psycopg2.Error of a failed save escapes save_checkpoint and
\* reaches the except block of run_pipeline
SaveErrorEscapes(fault, next) == IF fault # "none" THEN "handle" ELSE next

\* save_checkpoint: except psycopg2.Error is logged and the caller goes on
AfterSave(fault, next) == next

\* a bug fixed: a lock, no run starts while another process is in a run
MayStartExclusive(r) == \A q \in Procs \ {r} : pc[q] \in {"idle", "done", "failed"}

\* run_pipeline takes no lock and looks at no other process before it starts
MayStart(r) == TRUE

\* main.py is started: checkpoint = None, nothing extracted yet
StartRun(r) ==
    /\ pc[r] \in {"idle", "done", "failed"}
    /\ MayStart(r)
    /\ runs < MaxRuns
    /\ runs' = runs + 1
    /\ pc' = [pc EXCEPT ![r] = "lookup"]
    /\ checkpoint' = [checkpoint EXCEPT ![r] = None]
    /\ page' = [page EXCEPT ![r] = 0]
    /\ record_count' = [record_count EXCEPT ![r] = 0]
    /\ all_records' = [all_records EXCEPT ![r] = <<>>]
    /\ raw_data' = [raw_data EXCEPT ![r] = <<>>]
    /\ clean_data' = [clean_data EXCEPT ![r] = <<>>]
    /\ raised' = [raised EXCEPT ![r] = ""]
    /\ save_landed' = [save_landed EXCEPT ![r] = FALSE]
    /\ log' = [log EXCEPT ![r] = <<>>]
    /\ UNCHANGED <<fetch_call, source, variant, pipeline_metadata, health_indicators,
                   loaded, clock>>

\* a bug: the database error of the lookup reaches run_pipeline's handler
LookupErrorEscapes(fault) == IF fault = "none" THEN "fetch" ELSE "handle"

\* get_last_checkpoint catches psycopg2.Error and returns None: extract_data
\* is called next whatever happened
AfterLookup(fault) == "fetch"

\* checkpoint = get_last_checkpoint(), then extract_data picks its first page
GetLastCheckpoint(r) ==
    /\ pc[r] = "lookup"
    /\ \E fault \in {"none", "connect", "execute"} :
         LET cp == get_last_checkpoint(pipeline_metadata, fault)
         IN /\ checkpoint' = [checkpoint EXCEPT ![r] = cp]
            /\ page' = [page EXCEPT ![r] = StartPage(cp)]
            /\ Logged(r, Ev("get_last_checkpoint", cp, "", TRUE))
            /\ pc' = [pc EXCEPT ![r] = AfterLookup(fault)]
    /\ UNCHANGED <<fetch_call, source, variant, pipeline_metadata, health_indicators, loaded, clock,
                   runs, record_count, all_records, raw_data, clean_data, raised,
                   save_landed>>

\* data = fetch_with_retry(url); all_records.extend(records)
FetchPage(r) ==
    /\ pc[r] = "fetch"
    /\ page[r] <= MaxPage
    /\ \E outcomes \in [1..MAX_RETRIES -> BOOLEAN] :
         LET res == fetch_with_retry(outcomes, MAX_RETRIES)
         IN IF res.ok
            THEN /\ record_count' = [record_count EXCEPT ![r] = Len(PageRecords(page[r]))]
                 /\ all_records' = [all_records EXCEPT ![r] = @ \o PageRecords(page[r])]
                 /\ pc' = [pc EXCEPT ![r] = "save_running"]
                 /\ Logged(r, FetchEv(page[r] * PAGE_SIZE, PAGE_SIZE, TRUE))
                 /\ UNCHANGED raised
            ELSE /\ raised' = [raised EXCEPT ![r] = "RequestException"]
                 /\ pc' = [pc EXCEPT ![r] = "save_failed"]
                 /\ Logged(r, FetchEv(page[r] * PAGE_SIZE, PAGE_SIZE, FALSE))
                 /\ UNCHANGED <<record_count, all_records>>
    /\ UNCHANGED <<fetch_call, source, variant, pipeline_metadata, health_indicators, loaded, clock,
                   runs, checkpoint, page, raw_data, clean_data, save_landed>>

\* a bug: the delay is taken before the loop is left as well
DelayCallsAlways(n) == <<Ev("sleep", 0, "REQUEST_DELAY", TRUE)>>

\* time.sleep(REQUEST_DELAY) comes after the break on a short page
DelayCalls(n) ==
    IF EndOfData(n) THEN <<>> ELSE <<Ev("sleep", 0, "REQUEST_DELAY", TRUE)>>

\* save_checkpoint({"page": page + 1}, "running"); then break on a short page,
\* or page += 1 and time.sleep(REQUEST_DELAY)
SaveRunning(r) ==
    /\ pc[r] = "save_running"
    /\ \E fault \in DbFaults :
         /\ save_landed' = [save_landed EXCEPT ![r] = (fault = "none")]
         /\ pipeline_metadata' =
                save_checkpoint(pipeline_metadata, RunningCheckpoint(page[r]),
                                "running", fault)
         /\ IF EndOfData(record_count[r])
            THEN /\ raw_data' = [raw_data EXCEPT ![r] = all_records[r]]
                 /\ pc' = [pc EXCEPT ![r] = AfterSave(fault, "transform")]
                 /\ UNCHANGED page
            ELSE /\ page' = [page EXCEPT ![r] = @ + 1]
                 /\ pc' = [pc EXCEPT ![r] = AfterSave(fault, "fetch")]
                 /\ UNCHANGED raw_data
         /\ log' = [log EXCEPT ![r] =
                        Append(@, Ev("save_checkpoint", RunningCheckpoint(page[r]),
                                     "running", TRUE))
                            \o DelayCalls(record_count[r])]
    /\ UNCHANGED <<fetch_call, source, variant, health_indicators, loaded, clock, runs, checkpoint,
                   record_count, all_records, clean_data, raised>>

\* except requests.RequestException: save_checkpoint({"page": page}, "failed"); raise
SaveFailed(r) ==
    /\ pc[r] = "save_failed"
    /\ \E fault \in DbFaults :
         /\ save_landed' = [save_landed EXCEPT ![r] = (fault = "none")]
         /\ pipeline_metadata' =
                save_checkpoint(pipeline_metadata, FailedCheckpoint(page[r]),
                                "failed", fault)
         /\ Logged(r, Ev("save_checkpoint", FailedCheckpoint(page[r]), "failed", TRUE))
    /\ pc' = [pc EXCEPT ![r] = "handle"]
    /\ UNCHANGED <<fetch_call, source, variant, health_indicators, loaded, clock, runs, checkpoint,
                   page, record_count, all_records, raw_data, clean_data, raised>>

\* clean_data = transform_data(raw_data)
TransformStep(r) ==
    /\ pc[r] = "transform"
    /\ LET t == transform_data(raw_data[r])
       IN IF t.raised = ""
          THEN /\ clean_data' = [clean_data EXCEPT ![r] = t.out]
               /\ pc' = [pc EXCEPT ![r] = "load"]
               /\ Logged(r, Ev("transform_data", Len(t.out), "", TRUE))
               /\ UNCHANGED raised
          ELSE /\ raised' = [raised EXCEPT ![r] = t.raised]
               /\ pc' = [pc EXCEPT ![r] = "handle"]
               /\ Logged(r, Ev("transform_data", 0, "", FALSE))
               /\ UNCHANGED clean_data
    /\ UNCHANGED <<fetch_call, source, variant, pipeline_metadata, health_indicators, loaded, clock,
                   runs, checkpoint, page, record_count, all_records, raw_data,
                   save_landed>>

\* records_loaded = load_data(clean_data)
LoadStep(r) ==
    /\ pc[r] = "load"
    /\ \E fault \in LoadFaults(Len(clean_data[r])) :
         LET res == load_data(health_indicators, pipeline_metadata,
                              clean_data[r], fault, clock + 1)
         IN /\ health_indicators' = res.hi
            /\ pipeline_metadata' = res.meta
            /\ pc' = [pc EXCEPT ![r] = AfterLoad(res.raised)]
            /\ IF res.raised = ""
               THEN /\ loaded' = loaded \o clean_data[r]
                    /\ Logged(r, Ev("load_data", res.returned, "", TRUE))
                    /\ UNCHANGED raised
               ELSE /\ raised' = [raised EXCEPT ![r] = res.raised]
                    /\ Logged(r, Ev("load_data", fault.stmt, fault.at, FALSE))
                    /\ UNCHANGED loaded
    /\ clock' = clock + 1
    /\ UNCHANGED <<fetch_call, source, variant, runs, checkpoint, page, record_count,
                   all_records, raw_data, clean_data, save_landed>>

\* save_checkpoint(None, status="completed"); run_pipeline returns
MarkCompleted(r) ==
    /\ pc[r] = "mark_completed"
    /\ \E fault \in DbFaults :
         /\ save_landed' = [save_landed EXCEPT ![r] = (fault = "none")]
         /\ pipeline_metadata' =
                save_checkpoint(pipeline_metadata, None, "completed", fault)
         /\ Logged(r, Ev("save_checkpoint", None, "completed", TRUE))
         /\ pc' = [pc EXCEPT ![r] = AfterSave(fault, "done")]
    /\ UNCHANGED <<fetch_call, source, variant, health_indicators, loaded, clock, runs, checkpoint,
                   page, record_count, all_records, raw_data, clean_data, raised>>

\* except Exception: save_checkpoint(checkpoint, status="failed"); raise
HandleException(r) ==
    /\ pc[r] = "handle"
    /\ \E fault \in DbFaults :
         /\ save_landed' = [save_landed EXCEPT ![r] = (fault = "none")]
         /\ pipeline_metadata' =
                save_checkpoint(pipeline_metadata, HandlerCheckpoint(r), "failed", fault)
         /\ Logged2(r, Ev("save_checkpoint", HandlerCheckpoint(r), "failed", TRUE),
                       Ev("raise", 0, raised[r], TRUE))
    /\ pc' = [pc EXCEPT ![r] = "failed"]
    /\ UNCHANGED <<fetch_call, source, variant, health_indicators, loaded, clock, runs, checkpoint,
                   page, record_count, all_records, raw_data, clean_data, raised>>

\* runs of the pipeline one at a time, as the design assumes
Next ==
    \/ StartRun(Main)
    \/ GetLastCheckpoint(Main)
    \/ FetchPage(Main)
    \/ SaveRunning(Main)
    \/ SaveFailed(Main)
    \/ TransformStep(Main)
    \/ LoadStep(Main)
    \/ MarkCompleted(Main)
    \/ HandleException(Main)

Spec == Init /\ [][Next]_vars

----------------------------------------------------------------------------
(* fetch_with_retry on its own, for every max_retries and every outcome of
   its GETs *)

\* an API without records and a store without rows
NoStore ==
    /\ source = [p \in 0..MaxPage |-> 0]
    /\ variant = 1
    /\ pipeline_metadata = NoRow
    /\ health_indicators = {}
    /\ loaded = <<>>
    /\ clock = 0
    /\ runs = 0

\* the locals of a process that has not started
NoLocals ==
    /\ checkpoint = [r \in Procs |-> None]
    /\ page = [r \in Procs |-> 0]
    /\ record_count = [r \in Procs |-> 0]
    /\ all_records = [r \in Procs |-> <<>>]
    /\ clean_data = [r \in Procs |-> <<>>]
    /\ raised = [r \in Procs |-> ""]
    /\ save_landed = [r \in Procs |-> FALSE]
    /\ log = [r \in Procs |-> <<>>]

FetchInit ==
    /\ NoStore
    /\ NoLocals
    /\ pc = [r \in Procs |-> "idle"]
    /\ raw_data = [r \in Procs |-> <<>>]
    /\ \E m \in 1..MaxAttempts : \E outcomes \in [1..m -> BOOLEAN] :
          fetch_call = [NoCall EXCEPT !.max_retries = m, !.outcomes = outcomes]

\* fetch_with_retry(url, max_retries) returns or raises
CallFetch ==
    /\ ~fetch_call.returned
    /\ fetch_call.max_retries >= 1
    /\ fetch_call' =
           [fetch_call EXCEPT
                !.returned = TRUE,
                !.res = fetch_with_retry(fetch_call.outcomes, fetch_call.max_retries)]
    /\ UNCHANGED <<source, variant, pipeline_metadata, health_indicators, loaded, clock,
                   runs, pc, checkpoint, page, record_count, all_records, raw_data,
                   clean_data, raised, save_landed, log>>

FetchNext == CallFetch

FetchSpec == FetchInit /\ [][FetchNext]_vars

----------------------------------------------------------------------------
(* transform_data on its own, for every batch of up to MaxBatch records *)

\* the records the batches are made of
TransformInputs ==
    << \* three valid records of one (country_code, year), one with Dim1, one
       \* with the year as a string
       Raw(Val("text", 1), Val("int", 2020), Val("int", 70), Val("absent", 0)),
       Raw(Val("text", 1), Val("int", 2020), Val("int", 75), Val("text", 1)),
       Raw(Val("text", 1), Val("numstr", 2020), Val("int", 80), Val("absent", 0)),
       \* the bounds of the year range and of the value range, and beyond
       Raw(Val("text", 2), Val("int", MIN_YEAR), Val("int", MIN_VALUE), Val("absent", 0)),
       Raw(Val("text", 2), Val("int", MAX_YEAR), Val("int", 70), Val("absent", 0)),
       Raw(Val("text", 2), Val("int", MIN_YEAR - 1), Val("int", 70), Val("absent", 0)),
       Raw(Val("text", 2), Val("int", MAX_YEAR + 1), Val("int", 70), Val("absent", 0)),
       Raw(Val("text", 1), Val("int", 2020), Val("int", MIN_VALUE - 1), Val("absent", 0)),
       \* a null or missing field
       Raw(Val("null", 0), Val("int", 2020), Val("int", 70), Val("absent", 0)),
       Raw(Val("text", 1), Val("null", 0), Val("int", 70), Val("absent", 0)),
       Raw(Val("text", 1), Val("int", 2020), Val("null", 0), Val("absent", 0)),
       Raw(Val("text", 1), Val("int", 2020), Val("absent", 0), Val("absent", 0)),
       \* a year or a value that is no number
       Raw(Val("text", 1), Val("text", 1), Val("int", 70), Val("absent", 0)),
       Raw(Val("text", 2), Val("int", MAX_YEAR), Val("text", 1), Val("absent", 0)),
       \* the empty string as country code
       Raw(Val("text", 0), Val("int", 2020), Val("int", 70), Val("absent", 0)),
       \* the year 2020.5, with a value and with a value that is no number
       Raw(Val("text", 2), Val("frac", 2020), Val("int", 80), Val("absent", 0)),
       Raw(Val("text", 2), Val("frac", 2020), Val("text", 1), Val("absent", 0)),
       \* valid but for a key the record lacks: SpatialDim, TimeDim
       Raw(Val("absent", 0), Val("int", 2020), Val("int", 70), Val("absent", 0)),
       Raw(Val("text", 1), Val("absent", 0), Val("int", 70), Val("text", 1)) >>

TransformInit ==
    /\ NoStore
    /\ NoLocals
    /\ fetch_call = NoCall
    /\ pc = [r \in Procs |-> IF r = Main THEN "transform" ELSE "idle"]
    /\ \E n \in 0..MaxBatch : \E ix \in [1..n -> 1..Len(TransformInputs)] :
          raw_data = [r \in Procs |->
                         IF r = Main THEN [i \in 1..n |-> TransformInputs[ix[i]]]
                         ELSE <<>>]

TransformNext == TransformStep(Main)

TransformSpec == TransformInit /\ [][TransformNext]_vars

----------------------------------------------------------------------------
(* load_data on its own, for a table that already holds rows *)

\* a record as transform_data returns it
Canonical(c, y, v) ==
    AddMetadata([country_code |-> Val("text", c), year |-> Val("int", y),
                 value |-> Val("int", v)], FALSE)

\* the records the batches are made of: two of one key and one of another
LoadInputs == <<Canonical(1, 2020, 70), Canonical(1, 2020, 75), Canonical(2, 2021, 60)>>

\* rows the table may hold before the load, loaded at time 0: one whose
\* country_name scripts/update_country_names.py has filled in, one stored
\* under another indicator_name and source_url, and one of a key that is in
\* no batch
StoredRows ==
    {[InsertedRow(Canonical(1, 2020, 65), 0) EXCEPT !.country_name = "United States of America"],
     [InsertedRow(Canonical(2, 2021, 50), 0) EXCEPT
         !.indicator_name = "Life expectancy", !.source_url = "https://apps.who.int/gho"],
     [InsertedRow(Canonical(2, 1999, 40), 0) EXCEPT !.country_name = "Canada"]}

LoadInit ==
    /\ fetch_call = NoCall
    /\ source = [p \in 0..MaxPage |-> 0]
    /\ variant = 1
    /\ pipeline_metadata \in FreshMetadata
    /\ health_indicators \in SUBSET StoredRows
    /\ loaded = <<>>
    /\ clock = 0
    /\ runs = 0
    /\ pc = [r \in Procs |-> IF r = Main THEN "load" ELSE "idle"]
    /\ checkpoint = [r \in Procs |-> None]
    /\ page = [r \in Procs |-> 0]
    /\ record_count = [r \in Procs |-> 0]
    /\ all_records = [r \in Procs |-> <<>>]
    /\ raw_data = [r \in Procs |-> <<>>]
    /\ raised = [r \in Procs |-> ""]
    /\ save_landed = [r \in Procs |-> FALSE]
    /\ log = [r \in Procs |-> <<>>]
    /\ \E n \in 0..MaxBatch : \E ix \in [1..n -> 1..Len(LoadInputs)] :
          clean_data = [r \in Procs |->
                           IF r = Main THEN [i \in 1..n |-> LoadInputs[ix[i]]]
                           ELSE <<>>]

LoadNext == LoadStep(Main)

LoadSpec == LoadInit /\ [][LoadNext]_vars

----------------------------------------------------------------------------
(* Properties *)

\* the page the next run_pipeline would start extracting at
ResumePage(row) ==
    IF get_last_checkpoint(row, "none") # None
    THEN get_last_checkpoint(row, "none") ELSE 0

\* the run of r ended by re-raising the RequestException of a failed page fetch
FetchFailedRun(r) == pc[r] = "failed" /\ raised[r] = "RequestException"

\* C1: a run that failed on the fetch of page k (page[r]) leaves status failed
\* and a stored checkpoint from which the next run resumes at page k (stated
\* for runs whose last checkpoint save committed)
C1_ResumesAtFailedPage ==
    \A r \in Procs :
        (FetchFailedRun(r) /\ save_landed[r])
            => /\ pipeline_metadata.status = "failed"
               /\ ResumePage(pipeline_metadata) = page[r]

\* C2 as stated: whenever extract, transform and load succeeded, the run ends
\* with the checkpoint cleared and status completed
C2_AlwaysCleared ==
    \A r \in Procs :
        pc[r] = "done"
            => /\ pipeline_metadata.exists
               /\ pipeline_metadata.last_checkpoint = None
               /\ pipeline_metadata.status = "completed"

\* C2: when extract, transform and load succeeded and the final
\* save_checkpoint(None, "completed") committed, the run ends with the
\* checkpoint cleared and status completed, a lookup returns None and the
\* next run starts at page 0
C2_CompletedClearsCheckpoint ==
    \A r \in Procs :
        (pc[r] = "done" /\ save_landed[r])
            => /\ pipeline_metadata.exists
               /\ pipeline_metadata.last_checkpoint = None
               /\ pipeline_metadata.status = "completed"
               /\ get_last_checkpoint(pipeline_metadata, "none") = None
               /\ ResumePage(pipeline_metadata) = 0

\* a resumed run that fetched two pages, loaded records and cleared the row
C2_Witness ==
    \E r \in Procs :
        /\ pc[r] = "done" /\ save_landed[r]
        /\ checkpoint[r] # None
        /\ page[r] > checkpoint[r]
        /\ Len(clean_data[r]) > 0
        /\ pipeline_metadata.last_checkpoint = None

\* a step of the run that raised: a page fetch, the transform or the load
StepFailed(e) == e.op \in {"fetch", "transform_data", "load_data"} /\ ~e.ok

\* the exception a failed step raises
ExceptionOf(e) ==
    CASE e.op = "fetch" -> "RequestException"
      [] e.op = "transform_data" -> "TypeError"
      [] OTHER -> "psycopg2.Error"

IsSave(e, status) == e.op = "save_checkpoint" /\ e.status = status

\* C3: the calls of a run come in the order lookup, page fetches, transform,
\* load, save completed: transform follows an extraction that returned, load
\* follows a transform that returned, completed is saved right after a load
\* that returned, and after a step raised only the failed checkpoint saves
\* and the re-raise follow
C3_StepOrder ==
    \A r \in Procs :
        LET l == log[r]
        IN /\ \A i \in 1..Len(l) :
                /\ (l[i].op = "get_last_checkpoint") <=> (i = 1)
                /\ l[i].op = "fetch" => l[i - 1].op \in {"get_last_checkpoint", "sleep"}
                /\ l[i].op = "transform_data"
                     => /\ IsSave(l[i - 1], "running")
                        /\ l[i - 2].op = "fetch" /\ l[i - 2].ok
                        /\ \A j \in 1..i : ~StepFailed(l[j]) \/ j = i
                /\ l[i].op = "load_data"
                     => l[i - 1].op = "transform_data" /\ l[i - 1].ok
                /\ IsSave(l[i], "completed")
                     => l[i - 1].op = "load_data" /\ l[i - 1].ok /\ i = Len(l)
                /\ StepFailed(l[i])
                     => \A j \in (i + 1)..Len(l) :
                            l[j].op = "raise" \/ IsSave(l[j], "failed")
                /\ l[i].op = "raise" => i = Len(l)
           /\ pc[r] = "failed" => Len(l) > 0 /\ l[Len(l)].op = "raise"
           /\ pc[r] = "done" => Len(l) > 0 /\ IsSave(l[Len(l)], "completed")

\* a run that went through two page fetches, transform and load to completed
C3_Witness ==
    \E r \in Procs :
        /\ pc[r] = "done"
        /\ page[r] >= 1
        /\ \E i \in 1..Len(log[r]) : log[r][i].op = "load_data" /\ log[r][i].arg > 0

\* C4: a run in which a step raised ends by saving the checkpoint read at
\* the start of the run with status failed (the row holds it when the save
\* commits) and then re-raising the exception of that step; it never saves
\* status completed
C4_HandlerSavesStartCheckpoint ==
    \A r \in Procs :
        LET l == log[r]
            n == Len(l)
        IN /\ pc[r] = "failed"
                => /\ n >= 4
                   /\ l[n] = Ev("raise", 0, raised[r], TRUE)
                   /\ l[n - 1] = Ev("save_checkpoint", l[1].arg, "failed", TRUE)
                   /\ l[1].arg = checkpoint[r]
                   /\ \E i \in 2..(n - 2) :
                          StepFailed(l[i]) /\ raised[r] = ExceptionOf(l[i])
                   /\ save_landed[r]
                        => /\ pipeline_metadata.last_checkpoint = checkpoint[r]
                           /\ pipeline_metadata.status = "failed"
           /\ (\E i \in 1..n : StepFailed(l[i]))
                => /\ pc[r] \in {"save_failed", "handle", "failed"}
                   /\ \A j \in 1..n : ~IsSave(l[j], "completed")

\* a resumed run whose load raised after the extraction had moved the stored
\* checkpoint on: the handler put the start checkpoint back
C4_Witness ==
    \E r \in Procs :
        /\ pc[r] = "failed" /\ raised[r] = "psycopg2.Error" /\ save_landed[r]
        /\ checkpoint[r] # None
        /\ page[r] > checkpoint[r]
        /\ pipeline_metadata.last_checkpoint = checkpoint[r]

\* C5: every successful fetch of page p is followed at once by the call
\* save_checkpoint({page: p + 1}, "running"), before any further fetch, and
\* the row holds that checkpoint when the save commits
C5_CheckpointAfterEachFetch ==
    \A r \in Procs :
        LET l == log[r]
        IN /\ \A i \in 1..Len(l) :
                (l[i].op = "fetch" /\ l[i].ok)
                    => /\ i = Len(l) => pc[r] = "save_running"
                       /\ i < Len(l)
                            => l[i + 1] = Ev("save_checkpoint",
                                             (l[i].skip \div PAGE_SIZE) + 1,
                                             "running", TRUE)
                       /\ \A j \in (i + 1)..Len(l) :
                            l[j].op = "fetch" => l[j].skip > l[i].skip /\ j > i + 1
           /\ (pc[r] = "transform" /\ save_landed[r])
                => /\ pipeline_metadata.last_checkpoint = page[r] + 1
                   /\ pipeline_metadata.status = "running"
           /\ (pc[r] = "fetch" /\ Len(l) > 1 /\ save_landed[r])
                => /\ pipeline_metadata.last_checkpoint = page[r]
                   /\ pipeline_metadata.status = "running"

\* two full pages and the terminal short page fetched, each checkpointed
C5_Witness ==
    \E r \in Procs :
        /\ pc[r] = "transform" /\ save_landed[r]
        /\ page[r] = 2
        /\ checkpoint[r] = None
        /\ pipeline_metadata.last_checkpoint = 3

\* C6: when the fetch of page p fails, extract_data calls
\* save_checkpoint({page: p}, "failed") (the row holds it when the save
\* commits), then the failure propagates and no record reaches the caller
C6_FailedFetchCheckpoint ==
    \A r \in Procs :
        LET l == log[r]
            n == Len(l)
        IN /\ (pc[r] = "handle" /\ raised[r] = "RequestException")
                => /\ n >= 3
                   /\ l[n] = Ev("save_checkpoint", page[r], "failed", TRUE)
                   /\ l[n - 1] = FetchEv(page[r] * PAGE_SIZE, PAGE_SIZE, FALSE)
                   /\ save_landed[r]
                        => /\ pipeline_metadata.last_checkpoint = page[r]
                           /\ pipeline_metadata.status = "failed"
           /\ raised[r] = "RequestException"
                => /\ raw_data[r] = <<>> /\ clean_data[r] = <<>>
                   /\ pc[r] \in {"save_failed", "handle", "failed"}
                   /\ \A i \in 1..n : l[i].op \notin {"transform_data", "load_data"}

\* the fetch of page 2 failed after two pages had been accumulated
C6_Witness ==
    \E r \in Procs :
        /\ pc[r] = "handle" /\ raised[r] = "RequestException" /\ save_landed[r]
        /\ page[r] = 2
        /\ Len(all_records[r]) = 2 * PAGE_SIZE
        /\ pipeline_metadata.last_checkpoint = 2

\* the pages at or after s that return fewer than PAGE_SIZE records
ShortPagesFrom(s) == {p \in s..MaxPage : Len(PageRecords(p)) < PAGE_SIZE}

\* the records of pages s..t, in order
RECURSIVE ConcatPages(_, _)
ConcatPages(s, t) ==
    IF s > t THEN <<>> ELSE PageRecords(s) \o ConcatPages(s + 1, t)

IsFetchEv(e) == e.op = "fetch"

\* C7: an extraction that returns, started at page s (the checkpoint's page,
\* else 0), stopped at the first page t >= s with fewer than PAGE_SIZE
\* records, issued exactly t - s + 1 fetches, the i-th with offset
\* (s + i) * PAGE_SIZE and top PAGE_SIZE, and returns the records of pages
\* s..t concatenated in order
C7_FetchPlan ==
    \A r \in Procs :
        pc[r] = "transform"
            => LET s == IF checkpoint[r] # None THEN checkpoint[r] ELSE 0
                   t == page[r]
                   fetches == SelectSeq(log[r], IsFetchEv)
               IN /\ t \in ShortPagesFrom(s)
                  /\ \A p \in ShortPagesFrom(s) : t <= p
                  /\ Len(fetches) = (t - s) + 1
                  /\ \A i \in 0..(t - s) :
                        fetches[i + 1] = FetchEv((s + i) * PAGE_SIZE, PAGE_SIZE, TRUE)
                  /\ raw_data[r] = ConcatPages(s, t)
                  /\ Len(raw_data[r]) = ((t - s) * PAGE_SIZE) + Len(PageRecords(t))

\* resumed from {page: 1}: a full page and a short one, fetched at offsets
\* PAGE_SIZE and 2 * PAGE_SIZE
C7_Witness ==
    \E r \in Procs :
        /\ pc[r] = "transform"
        /\ checkpoint[r] = 1
        /\ page[r] = 2
        /\ Len(raw_data[r]) = PAGE_SIZE + 1

\* extract_data has returned its records to run_pipeline
ExtractionReturned(r) == pc[r] \in {"transform", "load", "mark_completed", "done"}

\* the steps of a started run, which the process executes one after another
RunStep(r) ==
    \/ GetLastCheckpoint(r)
    \/ FetchPage(r)
    \/ SaveRunning(r)
    \/ SaveFailed(r)
    \/ TransformStep(r)
    \/ LoadStep(r)
    \/ MarkCompleted(r)
    \/ HandleException(r)

\* r is in the page loop of extract_data
InPageLoop(r) == pc[r] \in {"fetch", "save_running"}

\* the first page at or after p with fewer than PAGE_SIZE records
FirstShortPage(p) == CHOOSE t \in ShortPagesFrom(p) : \A u \in ShortPagesFrom(p) : t <= u

\* steps of the page loop left before it reaches the first short page ahead
LoopDistance(r) ==
    (2 * (FirstShortPage(page[r]) - page[r])) + (IF pc[r] = "fetch" THEN 1 ELSE 0)

\* C8: an extraction returns only if some page at or after its start page has
\* fewer than PAGE_SIZE records (it returns on such a page), so over pages
\* that are all full it never returns; and while such a page lies ahead the
\* page loop can always take its next step, and every step brings it nearer
\* to that page, returns the records or is a failed fetch: the loop ends
C8_TerminatesIffShortPage ==
    /\ [](\A r \in Procs :
            ExtractionReturned(r)
                => /\ ShortPagesFrom(StartPage(checkpoint[r])) # {}
                   /\ page[r] \in ShortPagesFrom(StartPage(checkpoint[r]))
                   /\ record_count[r] < PAGE_SIZE)
    /\ [](\A r \in Procs :
            (InPageLoop(r) /\ ShortPagesFrom(page[r]) # {}) => ENABLED RunStep(r))
    /\ [][\A r \in Procs :
            (InPageLoop(r) /\ ShortPagesFrom(page[r]) # {} /\ pc'[r] # pc[r])
                => \/ /\ InPageLoop(r)'
                      /\ ShortPagesFrom(page'[r]) # {}
                      /\ LoopDistance(r)' < LoopDistance(r)
                   \/ /\ pc'[r] = "transform"
                      /\ LoopDistance(r) = 0
                      /\ raw_data'[r] = all_records[r]
                   \/ /\ pc'[r] = "save_failed"
                      /\ raised'[r] = "RequestException"]_vars

\* an extraction that went over two full pages and returned on the third
C8_Witness ==
    \E r \in Procs :
        /\ pc[r] = "transform"
        /\ checkpoint[r] = None
        /\ page[r] = 2
        /\ Len(raw_data[r]) = 2 * PAGE_SIZE

\* the page loop over pages that are all full: three pages fetched, no return
C8_WitnessAllFull ==
    \E r \in Procs :
        /\ pc[r] = "fetch"
        /\ page[r] = MaxPage + 1
        /\ ShortPagesFrom(0) = {}
        /\ Len(all_records[r]) = (MaxPage + 1) * PAGE_SIZE

\* C9: a load_data call that raises leaves health_indicators and the
\* pipeline_metadata row (records_processed included) exactly as they were
\* before the call, and the psycopg2.Error reaches run_pipeline's handler
C9_LoadAllOrNothing ==
    [][\A r \in Procs :
          (pc[r] = "load" /\ pc'[r] # "mark_completed")
              => /\ health_indicators' = health_indicators
                 /\ pipeline_metadata' = pipeline_metadata
                 /\ loaded' = loaded
                 /\ raised'[r] = "psycopg2.Error"
                 /\ pc'[r] = "handle"]_vars

\* a load whose second upsert statement failed, the first one being new to
\* the table
C9_Witness ==
    \E r \in Procs :
        /\ pc[r] = "handle"
        /\ log[r][Len(log[r])] = Ev("load_data", 2, "upsert", FALSE)
        /\ \A row \in health_indicators : KeyOf(row) # KeyOf(clean_data[r][1])

\* the rows of the table with the key of rec
RowsOf(rec) == {row \in health_indicators : KeyOf(row) = KeyOf(rec)}

\* rec is the most recently loaded record with its key
LatestLoaded(i) ==
    \A j \in (i + 1)..Len(loaded) : KeyOf(loaded[j]) # KeyOf(loaded[i])

\* C10: after any sequence of committed loads the table holds exactly one row
\* for every key loaded and none for other keys, and the row's value is the
\* value of the most recently loaded record with that key
C10_UpsertLatestWins ==
    /\ \A a, b \in health_indicators : KeyOf(a) = KeyOf(b) => a = b
    /\ \A row \in health_indicators :
          \E i \in 1..Len(loaded) : KeyOf(loaded[i]) = KeyOf(row)
    /\ \A i \in 1..Len(loaded) :
          /\ Cardinality(RowsOf(loaded[i])) = 1
          /\ LatestLoaded(i)
               => \A row \in RowsOf(loaded[i]) : row.value = loaded[i].value

\* a key loaded by two loads with different values: one row, the later value
C10_Witness ==
    \E i, j \in 1..Len(loaded) :
        /\ i < j
        /\ KeyOf(loaded[i]) = KeyOf(loaded[j])
        /\ loaded[i].value # loaded[j].value
        /\ LatestLoaded(j)
        /\ \E row \in health_indicators :
              /\ RowsOf(loaded[j]) = {row}
              /\ row.value = loaded[j].value
              /\ row.fetched_at = clock

\* C11: every committed load of n records adds exactly n to records_processed
\* in the transaction of its upserts, and no load or checkpoint save lowers
\* it: the counter is always the number of records of the committed loads
C11_RecordsProcessedCounts ==
    pipeline_metadata.records_processed = Len(loaded)

\* r is about to call save_checkpoint
AtSave(r) == pc[r] \in {"save_running", "save_failed", "mark_completed", "handle"}

\* where the caller of a save_checkpoint that returned goes on
NextAfterSave(r) ==
    CASE pc[r] = "save_running" ->
             IF record_count[r] < PAGE_SIZE THEN "transform" ELSE "fetch"
      [] pc[r] = "save_failed" -> "handle"
      [] pc[r] = "mark_completed" -> "done"
      [] OTHER -> "failed"

\* C12: a save_checkpoint that fails (on connect, execute or commit) leaves
\* the stored row as it was and raises nothing, and its caller goes on as
\* after a save that committed: same next step, same page, same records,
\* same log
C12_FailedSaveSwallowed ==
    [][\A r \in Procs :
          (AtSave(r) /\ pc'[r] # pc[r] /\ ~save_landed'[r])
              => /\ pipeline_metadata' = pipeline_metadata
                 /\ raised'[r] = raised[r]
                 /\ pc'[r] = NextAfterSave(r)
                 /\ page'[r] = IF NextAfterSave(r) = "fetch" THEN page[r] + 1 ELSE page[r]
                 /\ raw_data'[r] =
                        IF NextAfterSave(r) = "transform" THEN all_records[r] ELSE raw_data[r]
                 /\ all_records'[r] = all_records[r]
                 /\ Len(log'[r]) > Len(log[r])
                 /\ log'[r][Len(log[r]) + 1].op = "save_checkpoint"
                 /\ log'[r][Len(log[r]) + 1].ok]_vars

\* the save after page 0 committed, the save after page 1 failed: the row
\* still holds {page: 1} and the page loop is at page 2
C12_Witness ==
    \E r \in Procs :
        /\ pc[r] = "fetch" /\ page[r] = 2 /\ ~save_landed[r]
        /\ checkpoint[r] = None
        /\ pipeline_metadata.last_checkpoint = 1
        /\ pipeline_metadata.status = "running"

\* C13: a save_checkpoint(c, s) that commits leaves a row for the pipeline
\* with status s, inserted if there was none and overwritten otherwise, from
\* which get_last_checkpoint returns {page: n} when c = {page: n}, n >= 0,
\* and None when c is None
C13_CheckpointRoundTrip ==
    [][\A r \in Procs :
          (AtSave(r) /\ pc'[r] # pc[r] /\ save_landed'[r])
              => LET e == log'[r][Len(log[r]) + 1]
                 IN /\ e.op = "save_checkpoint"
                    /\ e.arg = None \/ e.arg >= 0
                    /\ pipeline_metadata'.exists
                    /\ pipeline_metadata'.status = e.status
                    /\ get_last_checkpoint(pipeline_metadata', "none") = e.arg
                    /\ pipeline_metadata'.records_processed
                           = pipeline_metadata.records_processed]_vars

\* the fetch of page 0 failed in a second run and {page: 0} was saved over
\* the row the first run had counted its load in: the lookup returns
\* {page: 0}, not None
C13_Witness ==
    \E r \in Procs :
        /\ pc[r] = "handle" /\ raised[r] = "RequestException" /\ save_landed[r]
        /\ page[r] = 0
        /\ runs = 2
        /\ pipeline_metadata.records_processed > 0
        /\ pipeline_metadata.status = "failed"
        /\ get_last_checkpoint(pipeline_metadata, "none") = 0

IsGet(c) == c.op = "get"
IsSleep(c) == c.op = "sleep"

\* the attempts with a successful GET, among those max_retries allows
SuccessfulAttempts == {i \in 0..(fetch_call.max_retries - 1) : fetch_call.outcomes[i + 1]}

\* the calls of a fetch_with_retry that went through attempts 0..last, with
\* a backoff wait after each but the last: GET 0, 1 s, GET 1, 2 s, GET 2, ...
AttemptsUpTo(calls, last) ==
    /\ Len(calls) = (2 * last) + 1
    /\ \A i \in 0..last : calls[(2 * i) + 1] = GetCall(i)
    /\ \A i \in 0..(last - 1) : calls[(2 * i) + 2] = SleepCall(2 ^ i)

\* C14: when the first f attempts fail and attempt f + 1 succeeds (f <
\* max_retries), fetch_with_retry returns the body of that response after
\* exactly f + 1 GETs and f backoff waits, the wait after the failure of
\* attempt index i being 2^i seconds, and makes no attempt after the success
C14_StopsAtFirstSuccess ==
    (fetch_call.returned /\ SuccessfulAttempts # {})
        => LET res == fetch_call.res
               f == CHOOSE i \in SuccessfulAttempts : \A j \in SuccessfulAttempts : i <= j
           IN /\ res.ok
              /\ res.body = f
              /\ res.raised = None
              /\ AttemptsUpTo(res.calls, f)
              /\ Len(SelectSeq(res.calls, IsGet)) = f + 1
              /\ Len(SelectSeq(res.calls, IsSleep)) = f

\* max_retries = 4: two failures, then a success that a later failure
\* would have followed: 3 GETs, waits of 1 s and 2 s
C14_Witness ==
    /\ fetch_call.returned
    /\ fetch_call.max_retries = 4
    /\ fetch_call.outcomes = <<FALSE, FALSE, TRUE, FALSE>>
    /\ fetch_call.res.ok
    /\ SelectSeq(fetch_call.res.calls, IsSleep) = <<SleepCall(1), SleepCall(2)>>

\* C15: when all max_retries attempts fail, fetch_with_retry makes exactly
\* max_retries GETs with max_retries - 1 backoff waits between them, none
\* after the final attempt, and raises the exception of the last attempt
C15_ExhaustedRaisesLast ==
    (fetch_call.returned /\ SuccessfulAttempts = {})
        => LET res == fetch_call.res
               m == fetch_call.max_retries
           IN /\ ~res.ok
              /\ res.body = None
              /\ res.raised = m - 1
              /\ AttemptsUpTo(res.calls, m - 1)
              /\ Len(SelectSeq(res.calls, IsGet)) = m
              /\ Len(SelectSeq(res.calls, IsSleep)) = m - 1
              /\ res.calls[Len(res.calls)].op = "get"

\* max_retries = 3, every GET fails: 3 GETs, waits of 1 s and 2 s, the
\* third exception raised
C15_Witness ==
    /\ fetch_call.returned
    /\ fetch_call.max_retries = 3
    /\ ~fetch_call.res.ok
    /\ fetch_call.res.raised = 2
    /\ Len(fetch_call.res.calls) = 5

\* transform_data has returned to r
Transformed(r) == pc[r] = "load"

\* the (country_code, year) of a raw record, the year read as a number
RawPair(rec) == <<rec.SpatialDim, ToNumeric(rec.TimeDim)>>

\* the (country_code, year) of an output record
OutPair(o) == <<o.country_code, Val("int", o.year)>>

\* the output record o carries the country, year and value of the raw record
DerivedFrom(o, rec) ==
    /\ OutPair(o) = RawPair(rec)
    /\ Val("int", o.value) = ToNumeric(rec.NumericValue)

\* a raw record the filters let through: no null, numbers for year and
\* value, the year in [MIN_YEAR, MAX_YEAR], the value at least MIN_VALUE
ValidRaw(rec) ==
    /\ ~IsNull(rec.SpatialDim)
    /\ ToNumeric(rec.TimeDim).k = "int"
    /\ ToNumeric(rec.NumericValue).k = "int"
    /\ ToNumeric(rec.TimeDim).n >= MIN_YEAR /\ ToNumeric(rec.TimeDim).n <= MAX_YEAR
    /\ ToNumeric(rec.NumericValue).n >= MIN_VALUE

\* C16 as stated: an output record is, among all the input records with its
\* (country_code, year), the one that comes first in the input
C16_FirstOfAllInput ==
    \A r \in Procs :
        Transformed(r)
            => \A k \in 1..Len(clean_data[r]) :
                  \A i \in 1..Len(raw_data[r]) :
                      (/\ RawPair(raw_data[r][i]) = OutPair(clean_data[r][k])
                       /\ \A j \in 1..(i - 1) :
                             RawPair(raw_data[r][j]) # RawPair(raw_data[r][i]))
                          => DerivedFrom(clean_data[r][k], raw_data[r][i])

\* C16: for every (country_code, year) the output holds exactly one record
\* if some input record with that pair passes the filters, the one derived
\* from the first such record in input order, and none otherwise
C16_FirstValidSurvives ==
    \A r \in Procs :
        Transformed(r)
            => LET raw == raw_data[r]
                   out == clean_data[r]
                   FirstValid(i) ==
                       /\ ValidRaw(raw[i])
                       /\ \A j \in 1..(i - 1) :
                             ValidRaw(raw[j]) => RawPair(raw[j]) # RawPair(raw[i])
               IN /\ \A i \in 1..Len(raw) :
                        FirstValid(i)
                            => /\ \E k \in 1..Len(out) : DerivedFrom(out[k], raw[i])
                               /\ \A k \in 1..Len(out) :
                                     OutPair(out[k]) = RawPair(raw[i])
                                         => DerivedFrom(out[k], raw[i])
                  /\ \A k \in 1..Len(out) :
                        \E i \in 1..Len(raw) :
                            FirstValid(i) /\ DerivedFrom(out[k], raw[i])

\* a negative value, then 70 and 75 for the same country and year: the
\* output is the record with 70, the second of the input
C16_Witness ==
    /\ Transformed(Main)
    /\ raw_data[Main] = <<TransformInputs[8], TransformInputs[1], TransformInputs[2]>>
    /\ Len(clean_data[Main]) = 1
    /\ clean_data[Main][1].value = 70

\* C17: no two records of the transform output have the same
\* (country_code, indicator_code, year)
C17_OutputKeysUnique ==
    \A r \in Procs :
        Transformed(r)
            => \A k, l \in 1..Len(clean_data[r]) :
                  KeyOf(clean_data[r][k]) = KeyOf(clean_data[r][l]) => k = l

\* a full batch with two valid records of one key and a record of another
\* key: two output records
C17_Witness ==
    /\ Transformed(Main)
    /\ Len(raw_data[Main]) = MaxBatch
    /\ \E i, j \in 1..Len(raw_data[Main]) :
          /\ i < j
          /\ ValidRaw(raw_data[Main][i]) /\ ValidRaw(raw_data[Main][j])
          /\ RawPair(raw_data[Main][i]) = RawPair(raw_data[Main][j])
    /\ \E i \in 1..Len(raw_data[Main]) :
          ValidRaw(raw_data[Main][i]) /\ raw_data[Main][i].SpatialDim = Val("text", 2)
    /\ Len(clean_data[Main]) = 2

\* C18: every output record has a non-empty string as country_code, an
\* integer year with MIN_YEAR <= year <= MAX_YEAR and a value >= MIN_VALUE,
\* and no output record comes from an input record with year 1899 or 2031
\* or with a negative value
C18_OutputsAreCanonical ==
    \A r \in Procs :
        Transformed(r)
            => /\ \A k \in 1..Len(clean_data[r]) :
                     LET o == clean_data[r][k]
                     IN /\ o.country_code.k = "text" /\ o.country_code.n >= 1
                        /\ o.year \in Int /\ o.year >= 1900 /\ o.year <= 2030
                        /\ o.value >= 0
               /\ \A i \in 1..Len(raw_data[r]) :
                     (\/ ToNumeric(raw_data[r][i].TimeDim) \in {Val("int", 1899), Val("int", 2031)}
                      \/ /\ ToNumeric(raw_data[r][i].NumericValue).k = "int"
                         /\ ToNumeric(raw_data[r][i].NumericValue).n < 0)
                        => \A k \in 1..Len(clean_data[r]) :
                              ~DerivedFrom(clean_data[r][k], raw_data[r][i])

\* transform_data has returned to r or raised
TransformEnded(r) == pc[r] \in {"load", "handle"} /\ Len(log[r]) = 1

\* the batch without its i-th record
RemoveAt(s, i) == SubSeq(s, 1, i - 1) \o SubSeq(s, i + 1, Len(s))

\* the structural check: each required column is carried by some record
PassesStructuralCheck(raw) ==
    \A col \in {"SpatialDim", "TimeDim", "NumericValue"} : HasColumn(raw, col)

\* a null or missing country_code, year or value, or a year or value that
\* cannot be coerced to a number
Uncoercible(rec) ==
    \/ IsNull(rec.SpatialDim) \/ IsNull(rec.TimeDim) \/ IsNull(rec.NumericValue)
    \/ ToNumeric(rec.TimeDim).k = "nan"
    \/ ToNumeric(rec.NumericValue).k = "nan"

\* which records are output: country_code, year and value of each, in order
OutputRecords(out) ==
    [k \in 1..Len(out) |->
        [country_code |-> out[k].country_code, year |-> out[k].year,
         value |-> out[k].value]]

\* C19: in a batch that passes the structural check, a record with a null
\* or missing country_code, year or value, or with a year or value that is
\* no number, gives no output record and changes nothing for the others:
\* transform_data ends as it does on the batch without that record, with
\* the same records output
C19_BadRecordIsInert ==
    \A r \in Procs :
        (TransformEnded(r) /\ PassesStructuralCheck(raw_data[r]))
            => \A i \in 1..Len(raw_data[r]) :
                  Uncoercible(raw_data[r][i])
                      => LET without == transform_data(RemoveAt(raw_data[r], i))
                         IN /\ raised[r] = without.raised
                            /\ OutputRecords(clean_data[r]) = OutputRecords(without.out)
                            /\ \A k \in 1..Len(clean_data[r]) :
                                  ~DerivedFrom(clean_data[r][k], raw_data[r][i])

\* C20: every output record has the fields country_code, year, value,
\* indicator_code, indicator_name and source_url and no other, Dim1 of the
\* input included, and the three constants have their values
C20_CanonicalFieldsOnly ==
    \A r \in Procs :
        Transformed(r)
            => \A k \in 1..Len(clean_data[r]) :
                  LET o == clean_data[r][k]
                  IN /\ DOMAIN o = {"country_code", "year", "value", "indicator_code",
                                    "indicator_name", "source_url"}
                     /\ o.indicator_code = "WHOSIS_000001"
                     /\ o.indicator_name = "Life expectancy at birth (years)"
                     /\ o.source_url = "https://ghoapi.azureedge.net/api"

----------------------------------------------------------------------------
(* transform_data on a batch it rejects *)

\* no record of the batch carries the field
CarriedByNone(raw, field) == \A i \in 1..Len(raw) : raw[i][field].k = "absent"

\* C21: transform_data returns the empty list and raises nothing when the
\* batch is empty and when one of SpatialDim, TimeDim and NumericValue is
\* carried by no record of the batch, whatever the other fields hold
C21_RejectedBatchIsEmpty ==
    \A r \in Procs :
        (/\ TransformEnded(r)
         /\ \/ raw_data[r] = <<>>
            \/ \E field \in {"SpatialDim", "TimeDim", "NumericValue"} :
                  CarriedByNone(raw_data[r], field))
            => /\ pc[r] = "load"
               /\ raised[r] = ""
               /\ clean_data[r] = <<>>
               /\ log[r] = <<Ev("transform_data", 0, "", TRUE)>>

\* a full batch of records that are valid but for the NumericValue none of
\* them carries: nothing is output and nothing is raised
C21_Witness ==
    /\ Transformed(Main)
    /\ Len(raw_data[Main]) = MaxBatch
    /\ \A i \in 1..MaxBatch : raw_data[Main][i] = TransformInputs[12]
    /\ CarriedByNone(raw_data[Main], "NumericValue")
    /\ raised[Main] = ""
    /\ clean_data[Main] = <<>>

----------------------------------------------------------------------------
(* load_data on a table that holds rows *)

\* load_data has committed the batch of r in this step
LoadCommits(r) == pc[r] = "load" /\ pc'[r] = "mark_completed" /\ clean_data[r] # <<>>

\* the value of the last record of the batch with the key
LastValueFor(data, key) ==
    LET last == CHOOSE k \in 1..Len(data) :
                    /\ KeyOf(data[k]) = key
                    /\ \A l \in (k + 1)..Len(data) : KeyOf(data[l]) # key
    IN data[last].value

\* C22: when load_data commits a batch, a row whose key is in the batch
\* keeps its indicator_name, source_url and country_name and takes the
\* value of the batch and the time of the load, it stays the one row of its
\* key, and every row whose key is not in the batch stays as it was
C22_UpsertChangesValueOnly ==
    [][\A r \in Procs :
          LoadCommits(r)
              => \A row \in health_indicators :
                    IF \E k \in 1..Len(clean_data[r]) : KeyOf(clean_data[r][k]) = KeyOf(row)
                    THEN /\ [row EXCEPT !.value = LastValueFor(clean_data[r], KeyOf(row)),
                                        !.fetched_at = clock + 1] \in health_indicators'
                         /\ Cardinality({row2 \in health_indicators' :
                                            KeyOf(row2) = KeyOf(row)}) = 1
                    ELSE row \in health_indicators']_vars

\* the table held the three rows; after the load of a record with the key
\* of the first, that row has the new value and time and still its
\* country_name, and the row of the key that is in no batch is as it was
C22_Witness ==
    /\ pc[Main] = "mark_completed"
    /\ clean_data[Main] = <<LoadInputs[2]>>
    /\ Cardinality(health_indicators) = 3
    /\ \E row \in health_indicators :
          /\ KeyOf(row) = KeyOf(LoadInputs[2])
          /\ row.value = 75 /\ row.fetched_at = 1
          /\ row.country_name = "United States of America"
    /\ \E row \in StoredRows : row.country_name = "Canada" /\ row \in health_indicators
    /\ \E row \in health_indicators : row.indicator_name = "Life expectancy"

----------------------------------------------------------------------------
(* two processes that run the pipeline against one store *)

\* any step of any process: runs are started while others are under way
ConcNext == \E r \in Procs : StartRun(r) \/ RunStep(r)

\* the store after setup_db and an API with records on its first page only
ConcInit ==
    /\ Init
    /\ variant = 1
    /\ \A p \in 1..MaxPage : source[p] = 0

ConcSpec == ConcInit /\ [][ConcNext]_vars

\* r is in a run
InRun(r) == pc[r] \notin {"idle", "done", "failed"}

\* C23: nothing keeps a process from starting a run while the other one is
\* in a run, and a save_checkpoint that commits overwrites the checkpoint
\* and the status of the row whichever process wrote them
C23_NoMutualExclusion ==
    [][\A r \in Procs :
          /\ (~InRun(r) /\ runs < MaxRuns /\ \E q \in Procs : InRun(q))
                 => ENABLED StartRun(r)
          /\ (AtSave(r) /\ pc'[r] # pc[r] /\ save_landed'[r])
                 => LET e == log'[r][Len(log[r]) + 1]
                    IN /\ pipeline_metadata'.status = e.status
                       /\ pipeline_metadata'.last_checkpoint = e.arg]_vars

\* one run has cleared the checkpoint and recorded completed and returned;
\* the other, still in its run, has since saved a page checkpoint: the row
\* is running with {page: n}
C23_Witness ==
    \E r, q \in Procs :
        /\ r # q
        /\ pc[r] = "done" /\ save_landed[r]
        /\ log[r][Len(log[r])] = Ev("save_checkpoint", None, "completed", TRUE)
        /\ InRun(q) /\ save_landed[q]
        /\ pipeline_metadata.status = "running"
        /\ pipeline_metadata.last_checkpoint >= 1

----------------------------------------------------------------------------
(* the order of the transform output *)

\* the output records can be matched to input records they derive from, one
\* input record each, going through both lists from first to last
RECURSIVE DerivedInOrder(_, _)
DerivedInOrder(out, raw) ==
    IF out = <<>> THEN TRUE
    ELSE IF raw = <<>> THEN FALSE
    ELSE IF DerivedFrom(Head(out), Head(raw))
    THEN DerivedInOrder(Tail(out), Tail(raw))
    ELSE DerivedInOrder(out, Tail(raw))

----------------------------------------------------------------------------
(* a run without canonical records *)

\* C25 as stated: a run whose transform gave no record ends with status
\* completed and the checkpoint cleared
C25_ZeroRecordsEndCompleted ==
    \A r \in Procs :
        (pc[r] = "done" /\ clean_data[r] = <<>>)
            => /\ pipeline_metadata.exists
               /\ pipeline_metadata.status = "completed"
               /\ pipeline_metadata.last_checkpoint = None

\* C25: when the transform gave no record, load_data returns 0 without
\* raising and leaves health_indicators and the row of the pipeline as they
\* were, the run goes on to its final save and returns, and if that save
\* commits the row has status completed and no checkpoint
C25_ZeroRecordsIsNoFailure ==
    [][\A r \in Procs :
          /\ (pc[r] = "load" /\ clean_data[r] = <<>> /\ pc'[r] # pc[r])
                 => /\ pc'[r] = "mark_completed"
                    /\ raised'[r] = ""
                    /\ log'[r] = Append(log[r], Ev("load_data", 0, "", TRUE))
                    /\ health_indicators' = health_indicators
                    /\ pipeline_metadata' = pipeline_metadata
          /\ (pc[r] = "mark_completed" /\ clean_data[r] = <<>> /\ pc'[r] # pc[r])
                 => /\ pc'[r] = "done"
                    /\ raised'[r] = ""
                    /\ health_indicators' = health_indicators
                    /\ save_landed'[r]
                           => /\ pipeline_metadata'.status = "completed"
                              /\ pipeline_metadata'.last_checkpoint = None
                              /\ pipeline_metadata'.records_processed
                                     = pipeline_metadata.records_processed]_vars

\* a run that extracted records none of which carries NumericValue has
\* returned, its final save committed: the row is completed and cleared
C25_Witness ==
    \E r \in Procs :
        /\ pc[r] = "done" /\ save_landed[r]
        /\ raw_data[r] # <<>> /\ clean_data[r] = <<>>
        /\ MissingColumns(raw_data[r]) # {}
        /\ pipeline_metadata.status = "completed"
        /\ pipeline_metadata.last_checkpoint = None

----------------------------------------------------------------------------
(* the rate-limit delays of extract_data *)

IsDelay(e) == e.op = "sleep"

FetchedOk(e) == IsFetchEv(e) /\ e.ok

\* how many delays the run took, how many pages it fetched
DelayCount(l) == Cardinality({i \in 1..Len(l) : IsDelay(l[i])})
FetchCount(l) == Cardinality({i \in 1..Len(l) : FetchedOk(l[i])})

\* C26: after the fetch of a page of exactly PAGE_SIZE records and its
\* checkpoint a delay is taken and then the next page is fetched, after a
\* shorter page no delay is taken, a delay is taken nowhere else, and an
\* extraction that returned after n pages took n - 1 delays
C26_DelayBetweenPages ==
    \A r \in Procs :
        LET l == log[r]
        IN /\ \A i \in 1..Len(l) :
                 /\ (FetchedOk(l[i]) /\ i < Len(l))
                        => IF source[l[i].skip \div PAGE_SIZE] = PAGE_SIZE
                           THEN /\ i + 2 <= Len(l)
                                /\ IsDelay(l[i + 2])
                                /\ IF i + 2 = Len(l) THEN pc[r] = "fetch"
                                   ELSE IsFetchEv(l[i + 3])
                           ELSE i + 2 <= Len(l) => ~IsDelay(l[i + 2])
                 /\ IsDelay(l[i])
                        => /\ i >= 3
                           /\ FetchedOk(l[i - 2])
                           /\ IsSave(l[i - 1], "running")
           /\ ExtractionReturned(r)
                 => DelayCount(l) = FetchCount(l) - 1

\* a run that fetched three pages, two full and a short one, and went on to
\* the transform after two delays
C26_Witness ==
    \E r \in Procs :
        /\ ExtractionReturned(r)
        /\ source[0] = PAGE_SIZE /\ source[1] = PAGE_SIZE /\ source[2] < PAGE_SIZE
        /\ FetchCount(log[r]) = 3
        /\ DelayCount(log[r]) = 2

----------------------------------------------------------------------------
(* the records in the store after a resumed run *)

\* health_indicators holds a row for the (country_code, year) of the record
Stored(rec) ==
    \E row \in health_indicators :
        /\ row.country_code = rec.SpatialDim
        /\ row.year = ToNumeric(rec.TimeDim).n

\* C27: when a run that resumed from a stored checkpoint has ended
\* completed, every valid record of every page from page 0 to the terminal
\* page of that run is in health_indicators
C27_CompleteAfterResume ==
    \A r \in Procs :
        (/\ pc[r] = "done" /\ save_landed[r]
         /\ checkpoint[r] # None /\ checkpoint[r] >= 1)
            => \A p \in 0..page[r] :
                  \A i \in 1..Len(PageRecords(p)) :
                      ValidRaw(PageRecords(p)[i]) => Stored(PageRecords(p)[i])

----------------------------------------------------------------------------
(* status and checkpoint of the row of the pipeline *)

\* the index of the last page the run of r has fetched
LastFetchedPage(r) ==
    LET l == log[r]
        last == CHOOSE i \in 1..Len(l) :
                    FetchedOk(l[i]) /\ \A j \in (i + 1)..Len(l) : ~FetchedOk(l[j])
    IN l[last].skip \div PAGE_SIZE

\* completed goes with no checkpoint, running with {page: n}, n >= 1
StatusMatchesCheckpoint(row) ==
    /\ row.status = "completed" => row.last_checkpoint = None
    /\ row.status = "running" => row.last_checkpoint >= 1

\* C28 as stated: the row is completed only without a checkpoint, and while
\* it is running, once the run has fetched a page and saved or tried to save
\* its checkpoint, the checkpoint is one more than the index of the last
\* page fetched
C28_RunningIsLastFetchedPlusOne ==
    /\ StatusMatchesCheckpoint(pipeline_metadata)
    /\ \A r \in Procs :
          (/\ pipeline_metadata.status = "running"
           /\ InRun(r) /\ pc[r] # "save_running"
           /\ FetchCount(log[r]) > 0)
              => pipeline_metadata.last_checkpoint = LastFetchedPage(r) + 1

\* C28: in every state the row is completed only without a checkpoint and
\* running only with {page: n}, n >= 1; and every write that leaves the row
\* running is the save that follows the fetch of page n - 1, the last page
\* fetched at the time of the write
C28_RunningWrittenAfterFetch ==
    [][/\ StatusMatchesCheckpoint(pipeline_metadata)
       /\ StatusMatchesCheckpoint(pipeline_metadata')
       /\ \A r \in Procs :
             (/\ pc'[r] # pc[r]
              /\ pipeline_metadata'.status = "running"
              /\ \/ pipeline_metadata'.status # pipeline_metadata.status
                 \/ pipeline_metadata'.last_checkpoint # pipeline_metadata.last_checkpoint)
                => /\ pc[r] = "save_running"
                   /\ FetchedOk(log[r][Len(log[r])])
                   /\ pipeline_metadata'.last_checkpoint = LastFetchedPage(r) + 1
                   /\ LastFetchedPage(r) = page[r]]_vars

\* the checkpoint {page: 2} was saved after the fetch of page 1 and the run
\* is about to fetch page 2
C28_Witness ==
    \E r \in Procs :
        /\ pc[r] = "fetch" /\ save_landed[r]
        /\ page[r] = 2
        /\ LastFetchedPage(r) = 1
        /\ pipeline_metadata.status = "running"
        /\ pipeline_metadata.last_checkpoint = 2

----------------------------------------------------------------------------
(* the final save of a successful run fails *)

\* the final save_checkpoint(None, "completed") of r fails in this step
FinalSaveFails(r) == pc[r] = "mark_completed" /\ pc'[r] # pc[r] /\ ~save_landed'[r]

\* C29 as stated: after a run returned with its final save failed, the row
\* is running with {page: t + 1}, t the terminal page, and the next run
\* starts at page t + 1
C29_KeepsTerminalCheckpoint ==
    \A r \in Procs :
        (pc[r] = "done" /\ ~save_landed[r])
            => /\ pipeline_metadata.exists
               /\ pipeline_metadata.status = "running"
               /\ pipeline_metadata.last_checkpoint = page[r] + 1
               /\ ResumePage(pipeline_metadata) = page[r] + 1

\* C29: when the final save of a run fails, run_pipeline returns without
\* raising and the row stays as it was; if the save after the terminal page
\* t had committed, the row is running with {page: t + 1} and the next run
\* starts at page t + 1, not at page 0
C29_FailedFinalSaveKeepsRow ==
    [][\A r \in Procs :
          FinalSaveFails(r)
              => /\ pc'[r] = "done"
                 /\ raised'[r] = ""
                 /\ log'[r][Len(log'[r])].op # "raise"
                 /\ pipeline_metadata' = pipeline_metadata
                 /\ save_landed[r]
                        => /\ pipeline_metadata'.status = "running"
                           /\ pipeline_metadata'.last_checkpoint = page[r] + 1
                           /\ get_last_checkpoint(pipeline_metadata', "none") = page[r] + 1
                           /\ ResumePage(pipeline_metadata') = page[r] + 1
                           /\ ResumePage(pipeline_metadata') # 0]_vars

\* a run loaded the records of pages 0 and 1 and returned, its final save
\* failed: the row is running with {page: 2}
C29_Witness ==
    \E r \in Procs :
        /\ pc[r] = "done" /\ ~save_landed[r]
        /\ page[r] = 1
        /\ Len(clean_data[r]) > 0
        /\ Len(loaded) > 0
        /\ pipeline_metadata.status = "running"
        /\ pipeline_metadata.last_checkpoint = 2
        /\ ResumePage(pipeline_metadata) = 2

----------------------------------------------------------------------------
(* a database error during the checkpoint lookup *)

\* the lookup of r fails: None is returned, the run goes on to the fetch of
\* page 0 and nothing is raised or written
LookupFailsQuietly(r) ==
    /\ GetLastCheckpoint(r)
    /\ checkpoint'[r] = None
    /\ page'[r] = 0
    /\ pc'[r] = "fetch"
    /\ raised'[r] = ""
    /\ pipeline_metadata' = pipeline_metadata

\* C30: get_last_checkpoint returns None on a database error whatever the
\* row holds; at every lookup the run can go on as a fresh start from page
\* 0; and after the lookup the run is at its first fetch with nothing
\* raised, at page 0 whenever the lookup returned None
C30_LookupErrorStartsFresh ==
    \A r \in Procs :
        /\ pc[r] = "lookup"
              => /\ \A fault \in {"connect", "execute"} :
                       get_last_checkpoint(pipeline_metadata, fault) = None
                 /\ ENABLED LookupFailsQuietly(r)
        /\ (InRun(r) /\ Len(log[r]) = 1)
              => /\ pc[r] = "fetch"
                 /\ log[r][1].op = "get_last_checkpoint"
                 /\ raised[r] = ""
                 /\ checkpoint[r] \in {None, get_last_checkpoint(pipeline_metadata, "none")}
                 /\ checkpoint[r] = None => page[r] = 0

\* the store holds {page: n}, n >= 1, the lookup returned None and the run
\* has fetched page 0
C30_Witness ==
    \E r \in Procs :
        /\ pc[r] = "save_running"
        /\ checkpoint[r] = None
        /\ page[r] = 0
        /\ log[r][Len(log[r])] = FetchEv(0, PAGE_SIZE, TRUE)
        /\ pipeline_metadata.last_checkpoint >= 1

====
